---- MODULE Spec2Model ----
(***************************************************************************)
(* Model of diesel's SQLite type-marshalling layer                         *)
(* (diesel/src/sqlite/types/mod.rs): the FromSql (decode) and ToSql        *)
(* (encode) implementations for the primitive SQL types and the            *)
(* JsonValidFlags extension type, together with the statement life cycle   *)
(* that drives them (bind a parameter, step, decode the columns of the     *)
(* current row, step again).                                               *)
(*                                                                         *)
(* Value representations                                                   *)
(*   i16, i32     the integer itself                                       *)
(*   i64          [hi, lo]: the signed high and low 32-bit halves          *)
(*   f32          [s, e, f]: sign, 8-bit biased exponent, 23-bit fraction  *)
(*   f64          [s, e, hi, lo]: sign, 11-bit biased exponent, the high   *)
(*                23 and the low 29 bits of the 52-bit fraction            *)
(*   str, [u8]    sequences of bytes                                       *)
(*   *const str, *const [u8]   [addr, len]: a fat raw pointer              *)
(***************************************************************************)
EXTENDS Integers, Sequences, FiniteSets, TLC

VARIABLES
    phase,      \* "idle" (between rows), "bound" (a parameter is encoded), "row"
    out,        \* the OutputSink of the bind call: the values written to it
    ret,        \* what the last to_sql call returned
    bound,      \* the host value handed to the last to_sql call
    cell,       \* the column of the current row the SqliteValue reads
    mem,        \* the backend's text/blob buffers, by address
    result,     \* what the last from_sql call returned
    held,       \* the raw view the caller keeps from a VarChar/Binary decode
    heldFresh,  \* no fetch, step or reset has happened since held was decoded
    observed    \* what the caller read through held

vars == <<phase, out, ret, bound, cell, mem, result, held, heldFresh, observed>>

(***************************************************************************)
(* Bounds of the model.                                                    *)
(***************************************************************************)
\* Inputs are taken within this distance of each integer boundary.
Radius == 1
\* Small integers -SmallMax..SmallMax are always among the inputs.
SmallMax == 16
\* Number of buffer addresses the backend hands out.
NumAddr == 2

(***************************************************************************)
(* Widths of the host types named in the source.                           *)
(***************************************************************************)
I16Bits == 16
I32Bits == 32
F32FracBits == 23
F64FracBits == 52
F32ExpMax == 255
F64ExpMax == 2047
F32Bias == 127
F64Bias == 1023

RECURSIVE Pow2(_)
Pow2(n) == IF n = 0 THEN 1 ELSE 2 * Pow2(n - 1)

I16Min == -Pow2(I16Bits - 1)
I16Max == Pow2(I16Bits - 1) - 1
I32Max == (Pow2(I32Bits - 2) - 1) + Pow2(I32Bits - 2)
I32Min == -I32Max - 1

\* The low fraction bits an f64 has and an f32 lacks.
LoBits == F64FracBits - F32FracBits
\* Difference of the exponent biases.
BiasGap == F64Bias - F32Bias

IsI16(x) == x \in Int /\ I16Min <= x /\ x <= I16Max
IsI32(x) == x \in Int /\ I32Min <= x /\ x <= I32Max
IsF32(x) ==
    /\ DOMAIN x = {"s", "e", "f"}
    /\ x.s \in {0, 1}
    /\ x.e \in 0..F32ExpMax
    /\ x.f \in 0..(Pow2(F32FracBits) - 1)
IsF64(x) ==
    /\ DOMAIN x = {"s", "e", "hi", "lo"}
    /\ x.s \in {0, 1}
    /\ x.e \in 0..F64ExpMax
    /\ x.hi \in 0..(Pow2(F32FracBits) - 1)
    /\ x.lo \in 0..(Pow2(LoBits) - 1)

(***************************************************************************)
(* Rust's numeric `as` casts.                                              *)
(***************************************************************************)
\* i32 as i16: keep the low 16 bits, reinterpret them as signed.
AsI16_Wrong(x) ==
    IF x > I16Max THEN I16Max ELSE IF x < I16Min THEN I16Min ELSE x

AsI16(x) ==
    LET low == x % Pow2(I16Bits)
    IN  IF low >= Pow2(I16Bits - 1) THEN low - Pow2(I16Bits) ELSE low

\* i16 as i32: sign-extend the 16-bit pattern.
I16AsI32_Wrong(x) == x % Pow2(I16Bits)

I16AsI32(x) ==
    LET bits == x % Pow2(I16Bits)
    IN  IF bits >= Pow2(I16Bits - 1) THEN bits - Pow2(I16Bits) ELSE bits

\* Position of the highest set bit of n > 0.
RECURSIVE TopBit(_)
TopBit(n) == IF n <= 1 THEN 0 ELSE 1 + TopBit(n \div 2)

\* f32 as f64: exact widening.
F32AsF64(x) ==
    IF x.e = F32ExpMax
      THEN [s |-> x.s, e |-> F64ExpMax, hi |-> x.f, lo |-> 0]
    ELSE IF x.e = 0 /\ x.f = 0
      THEN [s |-> x.s, e |-> 0, hi |-> 0, lo |-> 0]
    ELSE IF x.e = 0
      THEN LET p == TopBit(x.f)
           IN  [s |-> x.s, e |-> p + 1 + BiasGap - F32FracBits,
                hi |-> (x.f - Pow2(p)) * Pow2(F32FracBits - p), lo |-> 0]
    ELSE [s |-> x.s, e |-> x.e + BiasGap, hi |-> x.f, lo |-> 0]

\* Round the 24-bit significand sig, followed by the sticky bits lo, shifted
\* right by sh places, to nearest, ties to even.
RoundShift(sig, lo, sh) ==
    LET q    == sig \div Pow2(sh)
        rem  == sig % Pow2(sh)
        half == IF sh = 0 THEN 0 ELSE Pow2(sh - 1)
        up   == IF sh = 0
                  THEN \/ lo > Pow2(LoBits - 1)
                       \/ lo = Pow2(LoBits - 1) /\ q % 2 = 1
                  ELSE \/ rem > half
                       \/ rem = half /\ lo > 0
                       \/ rem = half /\ lo = 0 /\ q % 2 = 1
    IN  IF up THEN q + 1 ELSE q

\* f64 as f32: round to nearest, ties to even; overflow gives an infinity,
\* a NaN stays a NaN.
F64AsF32(x) ==
    LET e32 == x.e - BiasGap
        one == Pow2(F32FracBits)
    IN  IF x.e = F64ExpMax
          THEN IF x.hi = 0 /\ x.lo = 0
                 THEN [s |-> x.s, e |-> F32ExpMax, f |-> 0]
                 ELSE [s |-> x.s, e |-> F32ExpMax,
                       f |-> IF x.hi >= Pow2(F32FracBits - 1)
                               THEN x.hi ELSE x.hi + Pow2(F32FracBits - 1)]
        ELSE IF x.e = 0
          THEN [s |-> x.s, e |-> 0, f |-> 0]
        ELSE IF e32 >= F32ExpMax
          THEN [s |-> x.s, e |-> F32ExpMax, f |-> 0]
        ELSE IF e32 >= 1
          THEN LET m  == RoundShift(one + x.hi, x.lo, 0)
                   e2 == IF m >= 2 * one THEN e32 + 1 ELSE e32
               IN  IF e2 >= F32ExpMax
                     THEN [s |-> x.s, e |-> F32ExpMax, f |-> 0]
                     ELSE [s |-> x.s, e |-> e2, f |-> m % one]
        ELSE IF 1 - e32 > F32FracBits + 2
          THEN [s |-> x.s, e |-> 0, f |-> 0]
        ELSE LET m == RoundShift(one + x.hi, x.lo, 1 - e32)
             IN  [s |-> x.s, e |-> IF m >= one THEN 1 ELSE 0, f |-> m % one]

(***************************************************************************)
(* UTF-8 well-formedness of a byte sequence (what makes bytes a `str`).    *)
(***************************************************************************)
IsCont(b) == 128 <= b /\ b <= 191

RECURSIVE ValidUtf8(_)
ValidUtf8(bs) ==
    LET n    == Len(bs)
        b1   == bs[1]
        rest(k) == SubSeq(bs, k + 1, n)
    IN  IF n = 0 THEN TRUE
        ELSE IF b1 <= 127 THEN ValidUtf8(rest(1))
        ELSE IF 194 <= b1 /\ b1 <= 223
          THEN n >= 2 /\ IsCont(bs[2]) /\ ValidUtf8(rest(2))
        ELSE IF 224 <= b1 /\ b1 <= 239
          THEN /\ n >= 3 /\ IsCont(bs[2]) /\ IsCont(bs[3])
               /\ (b1 = 224 => bs[2] >= 160)
               /\ (b1 = 237 => bs[2] <= 159)
               /\ ValidUtf8(rest(3))
        ELSE IF 240 <= b1 /\ b1 <= 244
          THEN /\ n >= 4 /\ IsCont(bs[2]) /\ IsCont(bs[3]) /\ IsCont(bs[4])
               /\ (b1 = 240 => bs[2] >= 144)
               /\ (b1 = 244 => bs[2] <= 143)
               /\ ValidUtf8(rest(4))
        ELSE FALSE

(***************************************************************************)
(* Results.                                                                *)
(***************************************************************************)
None == [none |-> TRUE]

\* serialize::Result: Ok(IsNull::No), Ok(IsNull::Yes) or Err.
SerOk(isNull) == [ok |-> TRUE, isNull |-> isNull]
SerErr == [ok |-> FALSE, isNull |-> "n/a"]

\* deserialize::Result<T>: Ok(v) or Err.
DeOk(v) == [ok |-> TRUE, v |-> v]
DeErr == [ok |-> FALSE, v |-> None]

(***************************************************************************)
(* OutputSink: Output::set_value stores one bind value in the sink.  The   *)
(* sink records every value written to it during the bind call; the last   *)
(* one is what gets bound.                                                 *)
(***************************************************************************)
set_value(o, kind, v) == Append(o, [kind |-> kind, v |-> v])

(***************************************************************************)
(* ValueReader: the five read operations of SqliteValue on the column of   *)
(* the current row.  An INTEGER cell holds 64 bits; read_integer returns   *)
(* its low 32 bits.  read_text / read_blob return a view of the backend's  *)
(* buffer: its address and the length of the stored bytes.                 *)
(***************************************************************************)
read_integer(value) == value.v.lo
read_long(value) == value.v
read_double(value) == value.v
read_text(value) == [addr |-> value.addr, len |-> Len(value.bytes)]
read_blob(value) == [addr |-> value.addr, len |-> Len(value.bytes)]

(***************************************************************************)
(* FromSql implementations.                                                *)
(***************************************************************************)
\* A decode that validates before it returns.
FromSql_VarChar_Checked(value) ==
    IF ValidUtf8(value.bytes) THEN DeOk(read_text(value)) ELSE DeErr

\* A decode that hands out a copy in caller-owned memory (address 0).
FromSql_VarChar_Copy(value) ==
    DeOk([addr |-> 0, len |-> Len(value.bytes)])

\* impl FromSql<sql_types::VarChar, Sqlite> for *const str
FromSql_VarChar(value) ==
    LET text == read_text(value)
    IN  DeOk(text)

\* impl FromSql<sql_types::Binary, Sqlite> for *const [u8]
FromSql_Binary(value) ==
    LET bytes == read_blob(value)
    IN  DeOk(bytes)

\* A decode that clamps to the i16 range instead of truncating.
FromSql_SmallInt_Saturating(value) == DeOk(AsI16_Wrong(read_integer(value)))

\* A decode that range-checks (i16::try_from) instead of truncating.
FromSql_SmallInt_Checked(value) ==
    IF IsI16(read_integer(value)) THEN DeOk(read_integer(value)) ELSE DeErr

\* impl FromSql<sql_types::SmallInt, Sqlite> for i16
FromSql_SmallInt(value) == DeOk(AsI16(read_integer(value)))

\* impl FromSql<sql_types::Integer, Sqlite> for i32
FromSql_Integer(value) == DeOk(read_integer(value))

\* A decode that takes only 1 for true.
FromSql_Bool_OnlyOne(value) == DeOk(read_integer(value) = 1)

\* impl FromSql<sql_types::Bool, Sqlite> for bool
FromSql_Bool(value) == DeOk(read_integer(value) # 0)

\* impl FromSql<sql_types::BigInt, Sqlite> for i64
FromSql_BigInt(value) == DeOk(read_long(value))

\* impl FromSql<sql_types::Float, Sqlite> for f32
FromSql_Float(value) == DeOk(F64AsF32(read_double(value)))

\* impl FromSql<sql_types::Double, Sqlite> for f64
FromSql_Double(value) == DeOk(read_double(value))

(***************************************************************************)
(* ToSql implementations: each takes the host value and the sink and       *)
(* returns the sink afterwards and the call's result.                      *)
(***************************************************************************)
Wrote(o, res) == [out |-> o, res |-> res]

\* impl ToSql<sql_types::Integer, Sqlite> for i32
ToSql_Integer(self, o) == Wrote(set_value(o, "I32", self), SerOk("No"))

\* impl ToSql<sql_types::Bool, Sqlite> for bool
ToSql_Bool(self, o) ==
    LET int_value == IF self THEN 1 ELSE 0
    IN  ToSql_Integer(int_value, o)

\* An encode that reports the empty string as NULL.
ToSql_Text_EmptyIsNull(self, o) ==
    Wrote(set_value(o, "BorrowedString", self),
          SerOk(IF self = <<>> THEN "Yes" ELSE "No"))

\* impl ToSql<sql_types::Text, Sqlite> for str
ToSql_Text(self, o) == Wrote(set_value(o, "BorrowedString", self), SerOk("No"))

\* impl ToSql<sql_types::Binary, Sqlite> for [u8]
ToSql_Binary(self, o) == Wrote(set_value(o, "BorrowedBinary", self), SerOk("No"))

\* An encode that zero-extends (as u16 as i32) instead of sign-extending.
ToSql_SmallInt_ZeroExtend(self, o) ==
    Wrote(set_value(o, "I32", I16AsI32_Wrong(self)), SerOk("No"))

\* impl ToSql<sql_types::SmallInt, Sqlite> for i16
ToSql_SmallInt(self, o) == Wrote(set_value(o, "I32", I16AsI32(self)), SerOk("No"))

\* impl ToSql<sql_types::BigInt, Sqlite> for i64
ToSql_BigInt(self, o) == Wrote(set_value(o, "I64", self), SerOk("No"))

\* impl ToSql<sql_types::Float, Sqlite> for f32
ToSql_Float(self, o) == Wrote(set_value(o, "F64", F32AsF64(self)), SerOk("No"))

\* impl ToSql<sql_types::Double, Sqlite> for f64
ToSql_Double(self, o) == Wrote(set_value(o, "F64", self), SerOk("No"))

(***************************************************************************)
(* JsonValidFlag and the two encode paths of the JsonValidFlags tag.       *)
(***************************************************************************)
JsonValidFlag ==
    {"Rfc8259Json", "Json5", "JsonbLike", "Rfc8259JsonOrJsonb", "Json5OrJsonb",
     "JsonbStrict", "Rfc8259JsonOrJsonbStrict", "Json5OrJsonbStrict"}

\* Discriminants numbered in declaration order, as an enum without explicit
\* values would be.
Discriminant_Positional(flag) ==
    CASE flag = "Rfc8259Json" -> 0
      [] flag = "Json5" -> 1
      [] flag = "JsonbLike" -> 2
      [] flag = "Rfc8259JsonOrJsonb" -> 3
      [] flag = "Json5OrJsonb" -> 4
      [] flag = "JsonbStrict" -> 5
      [] flag = "Rfc8259JsonOrJsonbStrict" -> 6
      [] flag = "Json5OrJsonbStrict" -> 7

\* `*self as i32` on the enum: its explicit discriminant.
Discriminant(flag) ==
    CASE flag = "Rfc8259Json" -> 1
      [] flag = "Json5" -> 2
      [] flag = "JsonbLike" -> 4
      [] flag = "Rfc8259JsonOrJsonb" -> 5
      [] flag = "Json5OrJsonb" -> 6
      [] flag = "JsonbStrict" -> 8
      [] flag = "Rfc8259JsonOrJsonbStrict" -> 9
      [] flag = "Json5OrJsonbStrict" -> 10

\* A named path that binds the position of the variant, not its value.
ToSql_JsonValidFlags_JsonValidFlag_Positional(self, o) ==
    Wrote(set_value(o, "I32", Discriminant_Positional(self)), SerOk("No"))

\* impl ToSql<JsonValidFlags, Sqlite> for JsonValidFlag
ToSql_JsonValidFlags_JsonValidFlag(self, o) ==
    Wrote(set_value(o, "I32", Discriminant(self)), SerOk("No"))

\* A raw path that accepts only the named discriminants.
ToSql_JsonValidFlags_i32_Validating(self, o) ==
    IF \E d \in JsonValidFlag : Discriminant(d) = self
      THEN ToSql_Integer(self, o)
      ELSE Wrote(o, SerErr)

\* impl ToSql<JsonValidFlags, Sqlite> for i32
ToSql_JsonValidFlags_i32(self, o) == ToSql_Integer(self, o)

(***************************************************************************)
(* Inputs.                                                                 *)
(***************************************************************************)
Near(b) == (b - Radius)..(b + Radius)

I32Samples ==
    UNION { Near(b) : b \in {-Pow2(I16Bits) - Pow2(I16Bits - 1), -Pow2(I16Bits),
                             -Pow2(I16Bits - 1), Pow2(I16Bits - 1), Pow2(I16Bits),
                             Pow2(I16Bits) + Pow2(I16Bits - 1)} }
    \cup (-SmallMax..SmallMax)
    \cup { I32Min + d : d \in 0..Radius } \cup { I32Max - d : d \in 0..Radius }

I16Samples == { x \in I32Samples : IsI16(x) }

I64Samples ==
    [hi : {I32Min, -1, 0, 1, I32Max}, lo : {I32Min, -1, 0, 1, I32Max}]

F32Samples ==
    [s : {0, 1}, e : {0, 1, F32Bias, F32ExpMax - 1, F32ExpMax},
     f : {0, 1, Pow2(F32FracBits - 1), Pow2(F32FracBits) - 1}]

F64Samples ==
    [s : {0, 1},
     e : {0, BiasGap - F32FracBits - 2, BiasGap - F32FracBits - 1,
          BiasGap - F32FracBits, BiasGap, BiasGap + 1, F64Bias,
          BiasGap + F32ExpMax - 1, BiasGap + F32ExpMax, F64ExpMax},
     hi : {0, 1, Pow2(F32FracBits) - 1},
     lo : {0, 1, Pow2(LoBits - 1), Pow2(LoBits - 1) + 1}]

IsNaN64(x) == x.e = F64ExpMax /\ (x.hi # 0 \/ x.lo # 0)

hello == <<104, 101, 108, 108, 111>>
StrSamples == {<<>>, hello, <<195, 169>>}
NotUtf8Samples == {<<255>>, <<104, 195>>}
BlobSamples == {<<>>, hello, <<0, 159>>, <<255>>}
BytesSamples == StrSamples \cup NotUtf8Samples \cup BlobSamples

Addr == 1..NumAddr

(***************************************************************************)
(* The backend: what a bound value is stored as, and where the text/blob   *)
(* of the current row is buffered.                                         *)
(***************************************************************************)
SignWord(v) == IF v < 0 THEN -1 ELSE 0

Stored(b, a) ==
    CASE b.kind = "I32" -> [class |-> "INTEGER", v |-> [hi |-> SignWord(b.v), lo |-> b.v]]
      [] b.kind = "I64" -> [class |-> "INTEGER", v |-> b.v]
      [] b.kind = "F64" -> IF IsNaN64(b.v) THEN [class |-> "NULL"]
                                           ELSE [class |-> "REAL", v |-> b.v]
      [] b.kind = "BorrowedString" -> [class |-> "TEXT", bytes |-> b.v, addr |-> a]
      [] b.kind = "BorrowedBinary" -> [class |-> "BLOB", bytes |-> b.v, addr |-> a]

CellSamples ==
    { [class |-> "INTEGER", v |-> [hi |-> SignWord(n), lo |-> n]] : n \in I32Samples }
    \cup { [class |-> "INTEGER", v |-> w] : w \in I64Samples }
    \cup { [class |-> "REAL", v |-> x] : x \in { y \in F64Samples : ~IsNaN64(y) } }
    \cup { [class |-> "TEXT", bytes |-> b, addr |-> a] :
             b \in StrSamples \cup NotUtf8Samples, a \in Addr }
    \cup { [class |-> "BLOB", bytes |-> b, addr |-> a] : b \in BlobSamples, a \in Addr }

Buffered(c) == c.class \in {"TEXT", "BLOB"}

\* The buffers while c is the current column: only c's own buffer is live.
Buffers(c) ==
    [a \in Addr |-> IF c # None /\ Buffered(c) /\ c.addr = a THEN c.bytes ELSE <<>>]

\* Reading through a raw view.
Deref(view) ==
    IF view.addr \in DOMAIN mem /\ view.len <= Len(mem[view.addr])
      THEN [bytes |-> SubSeq(mem[view.addr], 1, view.len)]
      ELSE [fault |-> TRUE]

(***************************************************************************)
(* The state machine.                                                      *)
(***************************************************************************)
Init ==
    /\ phase = "idle"
    /\ out = <<>>
    /\ ret = None
    /\ bound = None
    /\ cell = None
    /\ mem = Buffers(None)
    /\ result = None
    /\ held = None
    /\ heldFresh = FALSE
    /\ observed = None

\* A bind call, made between rows: a fresh sink, one to_sql call on it.
Bind(impl, self, r) ==
    /\ phase' = "bound"
    /\ out' = r.out
    /\ ret' = r.res
    /\ bound' = [impl |-> impl, v |-> self]
    /\ UNCHANGED <<cell, mem, result, held, heldFresh, observed>>

BindBool ==
    /\ phase = "idle"
    /\ \E v \in BOOLEAN : Bind("Bool", v, ToSql_Bool(v, <<>>))
BindText ==
    /\ phase = "idle"
    /\ \E v \in StrSamples : Bind("Text", v, ToSql_Text(v, <<>>))
BindBinary ==
    /\ phase = "idle"
    /\ \E v \in BlobSamples : Bind("Binary", v, ToSql_Binary(v, <<>>))
BindSmallInt ==
    /\ phase = "idle"
    /\ \E v \in I16Samples : Bind("SmallInt", v, ToSql_SmallInt(v, <<>>))
BindInteger ==
    /\ phase = "idle"
    /\ \E v \in I32Samples : Bind("Integer", v, ToSql_Integer(v, <<>>))
BindBigInt ==
    /\ phase = "idle"
    /\ \E v \in I64Samples : Bind("BigInt", v, ToSql_BigInt(v, <<>>))
BindFloat ==
    /\ phase = "idle"
    /\ \E v \in F32Samples : Bind("Float", v, ToSql_Float(v, <<>>))
BindDouble ==
    /\ phase = "idle"
    /\ \E v \in F64Samples : Bind("Double", v, ToSql_Double(v, <<>>))
BindJsonValidFlag ==
    /\ phase = "idle"
    /\ \E v \in JsonValidFlag :
          Bind("JsonValidFlag", v, ToSql_JsonValidFlags_JsonValidFlag(v, <<>>))
BindJsonValidFlagsRaw ==
    /\ phase = "idle"
    /\ \E v \in I32Samples :
          Bind("JsonValidFlags_i32", v, ToSql_JsonValidFlags_i32(v, <<>>))

\* A new current row: the previous row's buffers are gone.
NewRow(c) ==
    /\ phase' = "row"
    /\ cell' = c
    /\ mem' = Buffers(c)
    /\ result' = None
    /\ heldFresh' = FALSE
    /\ observed' = None
    /\ UNCHANGED held

\* The statement executes with the encoded parameter and yields it back as
\* the column of its row.
Execute ==
    /\ phase = "bound"
    /\ ret.ok
    /\ Len(out) >= 1
    /\ \E a \in Addr : NewRow(Stored(out[Len(out)], a))
    /\ UNCHANGED <<out, ret, bound>>

\* A step onto a row of data already in the database.
Fetch ==
    /\ phase = "idle"
    /\ \E c \in CellSamples : NewRow(c)
    /\ out' = <<>>
    /\ ret' = None
    /\ bound' = None

\* The statement steps off the current row (or is reset): the row's buffers
\* are released.
Step ==
    /\ phase = "row"
    /\ phase' = "idle"
    /\ cell' = None
    /\ mem' = Buffers(None)
    /\ result' = None
    /\ heldFresh' = FALSE
    /\ observed' = None
    /\ out' = <<>>
    /\ ret' = None
    /\ bound' = None
    /\ UNCHANGED held

\* A from_sql call on the current column.
Decode(tag, class, r) ==
    /\ phase = "row"
    /\ cell.class = class
    /\ result' = [tag |-> tag, ok |-> r.ok, v |-> r.v]
    /\ UNCHANGED <<phase, out, ret, bound, cell, mem>>

\* The caller keeps the raw view a decode returned.
Keep(r) ==
    /\ held' = IF r.ok THEN r.v ELSE held
    /\ heldFresh' = IF r.ok THEN TRUE ELSE heldFresh
    /\ observed' = None

DecodeVarChar ==
    /\ Decode("VarChar", "TEXT", FromSql_VarChar(cell))
    /\ Keep(FromSql_VarChar(cell))
DecodeBinary ==
    /\ Decode("Binary", "BLOB", FromSql_Binary(cell))
    /\ Keep(FromSql_Binary(cell))
DecodeSmallInt ==
    /\ Decode("SmallInt", "INTEGER", FromSql_SmallInt(cell))
    /\ UNCHANGED <<held, heldFresh, observed>>
DecodeInteger ==
    /\ Decode("Integer", "INTEGER", FromSql_Integer(cell))
    /\ UNCHANGED <<held, heldFresh, observed>>
DecodeBool ==
    /\ Decode("Bool", "INTEGER", FromSql_Bool(cell))
    /\ UNCHANGED <<held, heldFresh, observed>>
DecodeBigInt ==
    /\ Decode("BigInt", "INTEGER", FromSql_BigInt(cell))
    /\ UNCHANGED <<held, heldFresh, observed>>
DecodeFloat ==
    /\ Decode("Float", "REAL", FromSql_Float(cell))
    /\ UNCHANGED <<held, heldFresh, observed>>
DecodeDouble ==
    /\ Decode("Double", "REAL", FromSql_Double(cell))
    /\ UNCHANGED <<held, heldFresh, observed>>

\* The caller reads through the view it kept.  Nothing checks that the
\* view is still fresh; through a stale view any bytes of the view's length
\* may be read, or the read may fault.
Use ==
    /\ held # None
    /\ observed' \in IF heldFresh
                       THEN {Deref(held)}
                       ELSE {[bytes |-> b] : b \in {x \in BytesSamples : Len(x) = held.len}}
                            \cup {[fault |-> TRUE]}
    /\ UNCHANGED <<phase, out, ret, bound, cell, mem, result, held, heldFresh>>

Next ==
    \/ BindBool \/ BindText \/ BindBinary \/ BindSmallInt \/ BindInteger
    \/ BindBigInt \/ BindFloat \/ BindDouble
    \/ BindJsonValidFlag \/ BindJsonValidFlagsRaw
    \/ Execute \/ Fetch \/ Step
    \/ DecodeVarChar \/ DecodeBinary \/ DecodeSmallInt \/ DecodeInteger
    \/ DecodeBool \/ DecodeBigInt \/ DecodeFloat \/ DecodeDouble
    \/ Use

Spec == Init /\ [][Next]_vars

(***************************************************************************)
(* The SmallInt codec alone, over every 16-bit integer.                    *)
(***************************************************************************)
BindSmallIntAll ==
    /\ phase = "idle"
    /\ \E v \in I16Min..I16Max : Bind("SmallInt", v, ToSql_SmallInt(v, <<>>))

NextI16 == BindSmallIntAll \/ Execute \/ DecodeSmallInt \/ Step

SpecI16 == Init /\ [][NextI16]_vars

(***************************************************************************)
(* Properties.                                                             *)
(***************************************************************************)
BoundBy(impl) == bound # None /\ bound.impl = impl
Decoded(tag) == phase = "row" /\ result # None /\ result.tag = tag
Sink(kind, v) == <<[kind |-> kind, v |-> v]>>

\* Bitwise OR of two naturals.
RECURSIVE BitOr(_, _)
BitOr(a, b) ==
    IF a = 0 THEN b
    ELSE IF b = 0 THEN a
    ELSE (IF a % 2 = 1 \/ b % 2 = 1 THEN 1 ELSE 0) + 2 * BitOr(a \div 2, b \div 2)

\* The low 16 bits of the 32-bit integer x, reinterpreted as signed:
\* ((x + 32768) mod 65536) - 32768, shifted by one period where x + 32768
\* would leave the 32-bit range.
Narrow16(x) ==
    IF x <= 32767 THEN ((x + 32768) % 65536) - 32768
                  ELSE ((x - 32768) % 65536) - 32768

\* C1: a 16-bit integer v encoded through the SmallInt tag is written to the
\* sink as the 32-bit integer of the same value (sign preserved), and
\* decoding the stored value through the SmallInt tag returns exactly v.
C1_SmallIntRoundTrip ==
    BoundBy("SmallInt") =>
        /\ out = Sink("I32", bound.v)
        /\ Decoded("SmallInt") => result.ok /\ result.v = bound.v

C1_Witness ==
    /\ BoundBy("SmallInt") /\ bound.v = -32768
    /\ Decoded("SmallInt") /\ result.v = -32768

\* C2: decoding through the SmallInt tag returns the two's-complement
\* narrowing to 16 bits of the 32-bit integer read, without a range check;
\* 65536 decodes to 0 and 32768 decodes to -32768.
C2_SmallIntTruncates ==
    Decoded("SmallInt") =>
        /\ result.ok
        /\ result.v = Narrow16(read_integer(cell))
        /\ read_integer(cell) = 65536 => result.v = 0
        /\ read_integer(cell) = 32768 => result.v = -32768

C2_Witness ==
    Decoded("SmallInt") /\ read_integer(cell) = 32768 /\ result.v = -32768

\* C3: Bool encode writes the 32-bit integer 1 for true and 0 for false;
\* Bool decode returns true exactly when the integer read is nonzero; so
\* true and false round-trip and a raw stored 2 decodes as true.
C3_BoolCodec ==
    /\ BoundBy("Bool") =>
          /\ out = Sink("I32", IF bound.v THEN 1 ELSE 0)
          /\ ret = SerOk("No")
    /\ Decoded("Bool") =>
          /\ result.ok
          /\ result.v = (read_integer(cell) # 0)
          /\ read_integer(cell) = 2 => result.v = TRUE
          /\ read_integer(cell) < 0 => result.v = TRUE
    /\ BoundBy("Bool") /\ Decoded("Bool") => result.v = bound.v

C3_Witness ==
    Decoded("Bool") /\ bound = None /\ read_integer(cell) = 2 /\ result.v = TRUE

DocumentedValue ==
    [Rfc8259Json |-> 1, Json5 |-> 2, JsonbLike |-> 4, Rfc8259JsonOrJsonb |-> 5,
     Json5OrJsonb |-> 6, JsonbStrict |-> 8, Rfc8259JsonOrJsonbStrict |-> 9,
     Json5OrJsonbStrict |-> 10]

\* C5: encoding a named JsonValidFlag writes exactly its documented integer
\* as a 32-bit integer; Json5OrJsonb read back through the Integer tag is 6;
\* each combined discriminant is the bitwise OR of the single bits it names.
C5_FlagDiscriminants ==
    /\ BoundBy("JsonValidFlag") =>
          /\ out = Sink("I32", DocumentedValue[bound.v])
          /\ ret = SerOk("No")
          /\ bound.v = "Json5OrJsonb" /\ Decoded("Integer") =>
                result.ok /\ result.v = 6
    /\ Discriminant("Rfc8259JsonOrJsonb")
          = BitOr(Discriminant("Rfc8259Json"), Discriminant("JsonbLike"))
    /\ Discriminant("Json5OrJsonb")
          = BitOr(Discriminant("Json5"), Discriminant("JsonbLike"))
    /\ Discriminant("Rfc8259JsonOrJsonbStrict")
          = BitOr(Discriminant("Rfc8259Json"), Discriminant("JsonbStrict"))
    /\ Discriminant("Json5OrJsonbStrict")
          = BitOr(Discriminant("Json5"), Discriminant("JsonbStrict"))

C5_Witness ==
    /\ BoundBy("JsonValidFlag") /\ bound.v = "Json5OrJsonb"
    /\ Decoded("Integer") /\ result.v = 6

\* C6: encoding the raw integer n of a named discriminant d through the i32
\* path of the JsonValidFlags tag leaves the sink, the call's result and the
\* stored column exactly as encoding d through the named path does.
C6_RawMatchesNamed ==
    \A d \in JsonValidFlag :
        LET named == ToSql_JsonValidFlags_JsonValidFlag(d, <<>>)
        IN  BoundBy("JsonValidFlags_i32") /\ bound.v = Discriminant(d) =>
               /\ out = named.out
               /\ ret = named.res
               /\ phase = "row" => cell = Stored(named.out[Len(named.out)], 1)

C6_Witness ==
    /\ BoundBy("JsonValidFlags_i32") /\ bound.v = 6
    /\ Decoded("Integer") /\ result.v = 6

\* C7: every encode of the layer writes exactly one value to the sink and
\* returns success reporting "not null".
C7_EncodeWritesOneNotNull ==
    bound # None => Len(out) = 1 /\ ret = SerOk("No")

C7_Witness ==
    phase = "bound" /\ BoundBy("Text") /\ bound.v = <<>> /\ out = Sink("BorrowedString", <<>>)

\* C8: until the next fetch, step or reset, the view a VarChar or Binary
\* decode returned points into the backend's own buffer (no copy) and reads
\* as the stored content; afterwards nothing stops the caller from reading
\* through the view it kept.
C8_ViewAliasesUntilNextStep ==
    /\ heldFresh =>
          /\ phase = "row" /\ Buffered(cell)
          /\ held.addr = cell.addr
          /\ Deref(held) = [bytes |-> cell.bytes]
          /\ observed # None => observed = [bytes |-> cell.bytes]
    /\ held # None => ENABLED Use

C8_Witness ==
    /\ heldFresh /\ cell.class = "TEXT" /\ cell.bytes = hello
    /\ observed = [bytes |-> hello]

\* C9: the narrowing decodes never fail: decode through SmallInt returns
\* success with a 16-bit integer and decode through Float returns success
\* with a 32-bit float, whatever the reader returned.
C9_NarrowingNeverFails ==
    /\ Decoded("SmallInt") => result.ok /\ IsI16(result.v)
    /\ Decoded("Float") => result.ok /\ IsF32(result.v)

C9_Witness ==
    /\ Decoded("Float") /\ cell.v.e = BiasGap + F32ExpMax
    /\ result.ok /\ result.v.e = F32ExpMax /\ result.v.f = 0

\* C10: the raw-integer path of the JsonValidFlags tag validates nothing:
\* every 32-bit integer n, named discriminant or not, is written unchanged
\* to the sink as a 32-bit integer, with success and "not null".
C10_RawPathUnvalidated ==
    BoundBy("JsonValidFlags_i32") =>
        /\ IsI32(bound.v)
        /\ out = Sink("I32", bound.v)
        /\ ret = SerOk("No")

C10_Witness ==
    /\ BoundBy("JsonValidFlags_i32") /\ bound.v = -1
    /\ \A d \in JsonValidFlag : Discriminant(d) # bound.v
    /\ phase = "row" /\ read_integer(cell) = -1

====
